---- MODULE Spec2Model ----
(***************************************************************************)
(* Memory subsystem of llm-agent-memory: the bounded context store, the    *)
(* vector retrieval store, the rule-based profile store, the router that   *)
(* aggregates them and the prompt builder that renders the aggregate.      *)
(*                                                                         *)
(* A Python str is modelled as the sequence of its code points, so that    *)
(* lower(), the substring test `in`, ord() and string concatenation are    *)
(* computed, not assumed.  A Python float is modelled as an exact real     *)
(* (see the retrieval store): rounding is not modelled.                    *)
(***************************************************************************)
EXTENDS Integers, Sequences, FiniteSets

VARIABLES
    context_memory,    \* ContextMemory: [exists, max_turns, turns]
    retrieval_memory,  \* RetrievalMemory: [texts, embeddings, model]
    profile_memory,    \* ProfileMemory: [profile |-> [preference, style]]
    router,            \* MemoryRouter: [retrieval_k]
    added_turns,       \* history: the arguments of every add_turn call, in call order
    memory_calls,      \* history: every add_memory call, [text, embedding, raised]
    profile_calls,     \* history: the argument of every update_from_text call
    context_out,       \* the list last returned by get_context (a reference)
    retrieved_out,     \* the list last returned by retrieve
    retrieve_call,     \* the arguments and the query embedding of that retrieve call
    profile_out,       \* the str last returned by get_profile_prompt
    memories,          \* the dict last returned by collect_memories
    collect_call,      \* the query and the query embedding of that collect_memories call
    messages,          \* the list last returned by build_messages
    build_args,        \* the arguments of that build_messages call
    raised,            \* the exception the last call raised, "" when it returned
    encode_raised,     \* the exception the embedding model raised in the last call, or ""
    last_op,           \* the name of the last call
    run,               \* run_experiment: where the call is and its local variables
    similarity         \* _cosine_similarity: the two vectors and what it returned

stores == <<context_memory, retrieval_memory, profile_memory, router>>
history == <<added_turns, memory_calls, profile_calls>>
results == <<context_out, retrieved_out, retrieve_call, profile_out, memories,
            collect_call>>
built == <<messages, build_args>>
vars == <<stores, history, results, built, raised, encode_raised, last_op, run,
          similarity>>

(***************************************************************************)
(* Bounds of the model.                                                    *)
(***************************************************************************)
MaxCapacity == 2     \* largest max_turns a ContextMemory is built with
MaxAddTurns == 4     \* add_turn calls per run
MaxMemoryCalls == 3  \* add_memory calls per run
MaxProfileCalls == 3 \* update_from_text calls per run
MaxBuildTurns == 2   \* context turns handed to build_messages
MaxBuildTexts == 2   \* retrieved texts handed to build_messages
MaxRunCalls == 4     \* store-changing calls per run of the whole system
MaxQueries == 6      \* queries the driver is given in one run_experiment call
MaxVectorLen == 2    \* length of the vectors handed to _cosine_similarity

Min(a, b) == IF a <= b THEN a ELSE b

(***************************************************************************)
(* String literals of the source, as code points.                          *)
(***************************************************************************)
\* "i don't like"
NEG_LIKE_1 == <<105, 32, 100, 111, 110, 39, 116, 32, 108, 105, 107, 101>>
\* 'i do not like'
NEG_LIKE_2 == <<105, 32, 100, 111, 32, 110, 111, 116, 32, 108, 105, 107, 101>>
\* 'i dislike'
NEG_LIKE_3 == <<105, 32, 100, 105, 115, 108, 105, 107, 101>>
\* 'i like'
LIKE_1 == <<105, 32, 108, 105, 107, 101>>
\* 'i prefer'
PREFER_1 == <<105, 32, 112, 114, 101, 102, 101, 114>>
\* 'my preference is'
PREFER_2 == <<109, 121, 32, 112, 114, 101, 102, 101, 114, 101, 110, 99, 101, 32, 105, 115>>
\* 'formal'
FORMAL == <<102, 111, 114, 109, 97, 108>>
\* 'casual'
CASUAL == <<99, 97, 115, 117, 97, 108>>
\* 'informal'
INFORMAL == <<105, 110, 102, 111, 114, 109, 97, 108>>
\* 'concise'
CONCISE == <<99, 111, 110, 99, 105, 115, 101>>
\* 'brief'
BRIEF == <<98, 114, 105, 101, 102>>
\* 'detailed'
DETAILED == <<100, 101, 116, 97, 105, 108, 101, 100>>
\* 'thorough'
THOROUGH == <<116, 104, 111, 114, 111, 117, 103, 104>>
\* 'avoid what the user dislikes'
PREF_AVOID == <<97, 118, 111, 105, 100, 32, 119, 104, 97, 116, 32, 116, 104, 101, 32, 117, 115, 101, 114, 32, 100, 105, 115, 108, 105, 107, 101, 115>>
\* 'follow what the user likes'
PREF_LIKES == <<102, 111, 108, 108, 111, 119, 32, 119, 104, 97, 116, 32, 116, 104, 101, 32, 117, 115, 101, 114, 32, 108, 105, 107, 101, 115>>
\* "follow the user's stated preference"
PREF_STATED == <<102, 111, 108, 108, 111, 119, 32, 116, 104, 101, 32, 117, 115, 101, 114, 39, 115, 32, 115, 116, 97, 116, 101, 100, 32, 112, 114, 101, 102, 101, 114, 101, 110, 99, 101>>
\* 'User preference: '
PREFERENCE_LABEL == <<85, 115, 101, 114, 32, 112, 114, 101, 102, 101, 114, 101, 110, 99, 101, 58, 32>>
\* 'User style: '
STYLE_LABEL == <<85, 115, 101, 114, 32, 115, 116, 121, 108, 101, 58, 32>>
\* '.'
PERIOD == <<46>>
\* '\n'
NEWLINE == <<10>>
\* '- '
BULLET == <<45, 32>>
\* 'Relevant memories:\n'
MEMORIES_HEADER == <<82, 101, 108, 101, 118, 97, 110, 116, 32, 109, 101, 109, 111, 114, 105, 101, 115, 58, 10>>

\* 'User: '
USER_PREFIX == <<85, 115, 101, 114, 58, 32>>
\* '\nAssistant: '
ASSISTANT_SEP == <<10, 65, 115, 115, 105, 115, 116, 97, 110, 116, 58, 32>>

(***************************************************************************)
(* Input texts the model draws from.                                       *)
(***************************************************************************)
\* ''
T_empty == <<>>
\* 'Hi'
T_Hi == <<72, 105>>
\* 'Hello'
T_Hello == <<72, 101, 108, 108, 111>>
\* 'A1'
T_A1 == <<65, 49>>
\* 'I like concise answers'
T_like_concise == <<73, 32, 108, 105, 107, 101, 32, 99, 111, 110, 99, 105, 115, 101, 32, 97, 110, 115, 119, 101, 114, 115>>
\* 'Hello there'
T_hello_there == <<72, 101, 108, 108, 111, 32, 116, 104, 101, 114, 101>>
\* 'I DISLIKE jargon'
T_dislike_upper == <<73, 32, 68, 73, 83, 76, 73, 75, 69, 32, 106, 97, 114, 103, 111, 110>>
\* "I don't like X, I like Y"
T_dont_like_but_like == <<73, 32, 100, 111, 110, 39, 116, 32, 108, 105, 107, 101, 32, 88, 44, 32, 73, 32, 108, 105, 107, 101, 32, 89>>
\* 'I prefer what I like'
T_prefer_like == <<73, 32, 112, 114, 101, 102, 101, 114, 32, 119, 104, 97, 116, 32, 73, 32, 108, 105, 107, 101>>
\* 'I prefer a Formal tone'
T_prefer_formal == <<73, 32, 112, 114, 101, 102, 101, 114, 32, 97, 32, 70, 111, 114, 109, 97, 108, 32, 116, 111, 110, 101>>
\* 'Keep it informal'
T_informal == <<75, 101, 101, 112, 32, 105, 116, 32, 105, 110, 102, 111, 114, 109, 97, 108>>
\* 'Be casual'
T_casual == <<66, 101, 32, 99, 97, 115, 117, 97, 108>>
\* 'Brief yet detailed'
T_brief_detailed == <<66, 114, 105, 101, 102, 32, 121, 101, 116, 32, 100, 101, 116, 97, 105, 108, 101, 100>>
\* 'I like it, I prefer brief, detailed replies'
T_multi == <<73, 32, 108, 105, 107, 101, 32, 105, 116, 44, 32, 73, 32, 112, 114, 101, 102, 101, 114, 32, 98, 114, 105, 101, 102, 44, 32, 100, 101, 116, 97, 105, 108, 101, 100, 32, 114, 101, 112, 108, 105, 101, 115>>
\* 'Thorough but casual'
T_thorough_casual == <<84, 104, 111, 114, 111, 117, 103, 104, 32, 98, 117, 116, 32, 99, 97, 115, 117, 97, 108>>
\* '\x01'
T_x01 == <<1>>
\* '\x02'
T_x02 == <<2>>
\* '\x01\x02'
T_x01x02 == <<1, 2>>
\* '\x02\x01'
T_x02x01 == <<2, 1>>
\* '\x00'
T_x00 == <<0>>

(***************************************************************************)
(* Python values.                                                          *)
(***************************************************************************)
\* bool(x) of a str or a list: non-empty.
Truthy(x) == Len(x) > 0

\* dict.get(key, default)
dict_get(d, key, default) == IF key \in DOMAIN d THEN d[key] ELSE default

\* A list handed to a caller is a reference: to a list object of its own
\* (`items`), or to the container a store keeps (an alias of the store's field).
NewList(items) == [ref |-> "new", items |-> items]

\* For an alias, `items` is what the container held when the call returned.
AliasOf(field, items) == [ref |-> field, items |-> items]

\* What a reader of the reference sees now.
Deref(r) ==
    CASE r.ref = "new" -> r.items
      [] r.ref = "context_memory._turns" -> context_memory.turns
      [] r.ref = "retrieval_memory._texts" -> retrieval_memory.texts

(***************************************************************************)
(* ContextMemory (src/memory/context_memory.py)                            *)
(***************************************************************************)
NoContextMemory == [exists |-> FALSE, max_turns |-> 0, turns |-> <<>>]

\* A constructor that refuses negative capacities only.
ContextMemory_init_negative_only(max_turns) ==
    IF max_turns < 0
    THEN [raised |-> "ValueError", self |-> NoContextMemory]
    ELSE [raised |-> "",
          self |-> [exists |-> TRUE, max_turns |-> max_turns, turns |-> <<>>]]

\* ContextMemory.__init__: the object built, or the exception raised.
ContextMemory_init(max_turns) ==
    IF max_turns <= 0
    THEN [raised |-> "ValueError", self |-> NoContextMemory]
    ELSE [raised |-> "",
          self |-> [exists |-> TRUE, max_turns |-> max_turns, turns |-> <<>>]]

\* A full deque that refuses the new item instead.
deque_append_drop_newest(d, maxlen, x) ==
    IF Len(d) = maxlen THEN d ELSE Append(d, x)

\* deque(maxlen=n).append(x): a full deque discards its leftmost item.
deque_append(d, maxlen, x) ==
    IF Len(d) = maxlen THEN Append(Tail(d), x) ELSE Append(d, x)

add_turn(self, user_text, assistant_text) ==
    [self EXCEPT !.turns = deque_append(self.turns, self.max_turns,
                             [user |-> user_text, assistant |-> assistant_text])]

\* The deque itself handed out, not a copy of it.
get_context_alias(self) == AliasOf("context_memory._turns", self.turns)

\* list(self._turns): a new list holding the deque's items.
get_context(self) == NewList(self.turns)

(***************************************************************************)
(* PromptBuilder (src/prompt/prompt_builder.py)                            *)
(***************************************************************************)
Message(role, content) == [role |-> role, content |-> content]

\* sep.join(parts)
RECURSIVE join(_, _)
join(sep, parts) ==
    IF Len(parts) = 0 THEN <<>>
    ELSE IF Len(parts) = 1 THEN parts[1]
    ELSE parts[1] \o sep \o join(sep, Tail(parts))

\* The loop over context_memories of build_messages.
RECURSIVE turn_messages(_)
turn_messages(context_memories) ==
    IF Len(context_memories) = 0 THEN <<>>
    ELSE LET turn == Head(context_memories)
             user_text == dict_get(turn, "user", <<>>)
             assistant_text == dict_get(turn, "assistant", <<>>)
         IN (IF Truthy(user_text) THEN <<Message("user", user_text)>> ELSE <<>>)
            \o (IF Truthy(assistant_text)
                THEN <<Message("assistant", assistant_text)>> ELSE <<>>)
            \o turn_messages(Tail(context_memories))

\* The final user message left out when the query is empty.
build_messages_skip_empty_query(context_memories, retrieved_memories, profile_prompt, user_query) ==
    (IF Truthy(profile_prompt) THEN <<Message("system", profile_prompt)>> ELSE <<>>)
    \o (IF Truthy(retrieved_memories)
        THEN <<Message("system", MEMORIES_HEADER \o join(NEWLINE,
                 [i \in 1..Len(retrieved_memories) |-> BULLET \o retrieved_memories[i]]))>>
        ELSE <<>>)
    \o turn_messages(context_memories)
    \o (IF Truthy(user_query) THEN <<Message("user", user_query)>> ELSE <<>>)

build_messages(context_memories, retrieved_memories, profile_prompt, user_query) ==
    (IF Truthy(profile_prompt) THEN <<Message("system", profile_prompt)>> ELSE <<>>)
    \o (IF Truthy(retrieved_memories)
        THEN <<Message("system", MEMORIES_HEADER \o join(NEWLINE,
                 [i \in 1..Len(retrieved_memories) |-> BULLET \o retrieved_memories[i]]))>>
        ELSE <<>>)
    \o turn_messages(context_memories)
    \o <<Message("user", user_query)>>

(***************************************************************************)
(* RetrievalMemory (src/memory/retrieval_memory.py)                        *)
(*                                                                         *)
(* A float vector is [num, dsq]: component i is the real num[i]/sqrt(dsq). *)
(* A similarity is [num, dsq]: the real num/sqrt(dsq), dsq >= 1.           *)
(***************************************************************************)
Dim == 64

Vec(num) == [num |-> num, dsq |-> 1]

RECURSIVE SumOver(_, _)
SumOver(f, S) ==
    IF S = {} THEN 0
    ELSE LET i == CHOOSE j \in S : TRUE IN f[i] + SumOver(f, S \ {i})

\* sum(a[i] * b[i] for i in range(length)), as an integer numerator; the terms
\* that are 0 are left out of the sum.
Dot(a, b, length) ==
    SumOver([i \in 1..length |-> a[i] * b[i]], {i \in 1..length : a[i] * b[i] # 0})

\* The loop of _mock_embedding: after the first idx characters.
RECURSIVE mock_buckets(_, _, _)
mock_buckets(text, dim, idx) ==
    IF idx = 0 THEN [b \in 1..dim |-> 0]
    ELSE LET vector == mock_buckets(text, dim, idx - 1)
             bucket == ((idx - 1) % dim) + 1
         IN [vector EXCEPT ![bucket] = @ + text[idx]]

\* _normalize: the vector itself when its norm is 0.0, else vector / norm.
normalize(vector) ==
    LET normsq == Dot(vector.num, vector.num, Len(vector.num))
    IN IF normsq = 0 THEN vector
       ELSE [num |-> vector.num, dsq |-> normsq]

\* The buckets started at 1.0, not at 0.0.
mock_embedding_from_ones(text, dim) ==
    normalize(Vec([b \in 1..dim |-> 1 + mock_buckets(text, dim, Len(text))[b]]))

mock_embedding(text, dim) == normalize(Vec(mock_buckets(text, dim, Len(text))))

ZeroSim == [num |-> 0, dsq |-> 1]

\* _cosine_similarity: dot / (norm_a * norm_b); the two dsq scalings cancel.
cosine_similarity(a, b) ==
    IF Len(a.num) = 0 \/ Len(b.num) = 0 THEN ZeroSim
    ELSE LET length == Min(Len(a.num), Len(b.num))
             dot == Dot(a.num, b.num, length)
             normsq_a == Dot(a.num, a.num, length)
             normsq_b == Dot(b.num, b.num, length)
         IN IF normsq_a = 0 \/ normsq_b = 0 THEN ZeroSim
            ELSE [num |-> dot, dsq |-> normsq_a * normsq_b]

\* s < t for two similarities
SimLess(s, t) ==
    IF s.num >= 0
    THEN t.num > 0 /\ s.num * s.num * t.dsq < t.num * t.num * s.dsq
    ELSE t.num >= 0 \/ s.num * s.num * t.dsq > t.num * t.num * s.dsq

SimEqual(s, t) == ~SimLess(s, t) /\ ~SimLess(t, s)

(***************************************************************************)
(* Python float arithmetic (IEEE-754 binary64, round to nearest, ties to   *)
(* even) as _cosine_similarity uses it.  Exponents are unbounded: overflow *)
(* to inf and underflow to subnormals are not modelled.                    *)
(*                                                                         *)
(* A natural number of any size is a little-endian sequence of limbs in    *)
(* 0..Base-1 with no zero limb at its high end; <<>> is 0.                 *)
(***************************************************************************)
Base == 2^15

RECURSIVE BigTrim(_)
BigTrim(a) ==
    IF a # <<>> /\ a[Len(a)] = 0 THEN BigTrim(SubSeq(a, 1, Len(a) - 1)) ELSE a

BigLimb(a, i) == IF i \in 1..Len(a) THEN a[i] ELSE 0

\* n in 0..2^31-1
Big(n) == BigTrim(<<n % Base, (n \div Base) % Base, n \div (Base * Base)>>)

RECURSIVE BigAddFrom(_, _, _, _)
BigAddFrom(a, b, i, carry) ==
    IF i > Len(a) /\ i > Len(b) THEN (IF carry = 0 THEN <<>> ELSE <<carry>>)
    ELSE LET s == BigLimb(a, i) + BigLimb(b, i) + carry
         IN <<s % Base>> \o BigAddFrom(a, b, i + 1, s \div Base)

BigAdd(a, b) == BigAddFrom(a, b, 1, 0)

RECURSIVE BigSubFrom(_, _, _, _)
BigSubFrom(a, b, i, borrow) ==
    IF i > Len(a) THEN <<>>
    ELSE LET d == a[i] - BigLimb(b, i) - borrow
         IN <<(d + Base) % Base>> \o BigSubFrom(a, b, i + 1, IF d < 0 THEN 1 ELSE 0)

\* a - b, for a >= b
BigSub(a, b) == BigTrim(BigSubFrom(a, b, 1, 0))

BigLess(a, b) ==
    IF Len(a) # Len(b) THEN Len(a) < Len(b)
    ELSE LET d == {i \in 1..Len(a) : a[i] # b[i]}
         IN d # {} /\ LET i == CHOOSE k \in d : \A j \in d : j <= k
                      IN a[i] < b[i]

RECURSIVE BigMulSmallFrom(_, _, _, _)
BigMulSmallFrom(a, m, i, carry) ==
    IF i > Len(a) THEN (IF carry = 0 THEN <<>> ELSE <<carry>>)
    ELSE LET p == a[i] * m + carry
         IN <<p % Base>> \o BigMulSmallFrom(a, m, i + 1, p \div Base)

\* a * m, for m in 0..Base-1
BigMulSmall(a, m) == BigTrim(BigMulSmallFrom(a, m, 1, 0))

BigShiftLimbs(a, k) == IF a = <<>> THEN <<>> ELSE [i \in 1..k |-> 0] \o a

RECURSIVE BigMulFrom(_, _, _)
BigMulFrom(a, b, i) ==
    IF i > Len(b) THEN <<>>
    ELSE BigAdd(BigShiftLimbs(BigMulSmall(a, b[i]), i - 1), BigMulFrom(a, b, i + 1))

BigMul(a, b) == BigTrim(BigMulFrom(a, b, 1))

\* a * 2^k
BigShl(a, k) == BigShiftLimbs(BigMulSmall(a, 2^(k % 15)), k \div 15)

\* a \div 2^k
BigShr(a, k) ==
    LET q == k \div 15
        r == k % 15
        n == Len(a) - q
    IN IF n <= 0 THEN <<>>
       ELSE BigTrim([i \in 1..n |-> (a[i + q] \div 2^r)
                                      + (BigLimb(a, i + q + 1) % 2^r) * 2^(15 - r)])

\* The number of bits of a: 0 for 0.
BigBitLen(a) ==
    IF a = <<>> THEN 0
    ELSE 15 * (Len(a) - 1) + Cardinality({k \in 0..14 : 2^k <= a[Len(a)]})

BigOdd(a) == a # <<>> /\ a[1] % 2 = 1

\* Long division over the bits i..stop of the quotient.
RECURSIVE BigDivBits(_, _, _, _)
BigDivBits(s, d, i, stop) ==
    IF i < stop THEN s
    ELSE LET t == BigShl(d, i)
         IN IF BigLess(s.remainder, t) THEN BigDivBits(s, d, i - 1, stop)
            ELSE BigDivBits([quotient |-> BigAdd(s.quotient, BigShl(Big(1), i)),
                             remainder |-> BigSub(s.remainder, t)], d, i - 1, stop)

\* The same, eight bits at a time from bit i down to bit 0.
RECURSIVE BigDivFrom(_, _, _)
BigDivFrom(s, d, i) ==
    IF i < 0 THEN s
    ELSE BigDivFrom(BigDivBits(s, d, i, IF i >= 7 THEN i - 7 ELSE 0), d, i - 8)

\* floor(n / d) and the remainder, d # 0
BigDivMod(n, d) ==
    BigDivFrom([quotient |-> <<>>, remainder |-> n], d,
               IF BigBitLen(n) >= BigBitLen(d) THEN BigBitLen(n) - BigBitLen(d) ELSE 0)

\* The bits i..stop of floor(sqrt(n)), given the bits above them in r.
RECURSIVE BigSqrtBits(_, _, _, _)
BigSqrtBits(n, r, i, stop) ==
    IF i < stop THEN r
    ELSE LET c == BigAdd(r, BigShl(Big(1), i))
         IN IF BigLess(n, BigMul(c, c)) THEN BigSqrtBits(n, r, i - 1, stop)
            ELSE BigSqrtBits(n, c, i - 1, stop)

RECURSIVE BigSqrtFrom(_, _, _)
BigSqrtFrom(n, r, i) ==
    IF i < 0 THEN r
    ELSE BigSqrtFrom(n, BigSqrtBits(n, r, i, IF i >= 7 THEN i - 7 ELSE 0), i - 8)

\* floor(sqrt(n))
BigSqrt(n) == BigSqrtFrom(n, <<>>, (BigBitLen(n) + 1) \div 2)

\* sys.float_info.mant_dig
FLOAT_MANT_DIG == 53

\* A float is [sign, m, e]: sign * m * 2^e with m of exactly FLOAT_MANT_DIG
\* bits, or m = 0 for 0.0.
FloatZero == [sign |-> 1, m |-> <<>>, e |-> 0]

\* The float nearest to sign * n * 2^e (ties to even); `inexact` says that the
\* exact value lies above n * 2^e by less than one unit of n.
FloatRound(sign, n, e, inexact) ==
    IF n = <<>> THEN FloatZero
    ELSE LET k == BigBitLen(n) - FLOAT_MANT_DIG
         IN IF k <= 0 THEN [sign |-> sign, m |-> BigShl(n, -k), e |-> e + k]
            ELSE LET q == BigShr(n, k)
                     rem == BigSub(n, BigShl(q, k))
                     half == BigShl(Big(1), k - 1)
                     up == \/ BigLess(half, rem)
                           \/ rem = half /\ (inexact \/ BigOdd(q))
                     m == IF up THEN BigAdd(q, Big(1)) ELSE q
                 IN IF BigBitLen(m) > FLOAT_MANT_DIG
                    THEN [sign |-> sign, m |-> BigShr(m, 1), e |-> e + k + 1]
                    ELSE [sign |-> sign, m |-> m, e |-> e + k]

\* float(n) for an int n, |n| < 2^31: exact.
FloatOfInt(n) == FloatRound(IF n < 0 THEN -1 ELSE 1, Big(IF n < 0 THEN -n ELSE n), 0, FALSE)

\* x * y
float_mul(x, y) == FloatRound(x.sign * y.sign, BigMul(x.m, y.m), x.e + y.e, FALSE)

\* x / y, y # 0.0
float_truediv(x, y) ==
    IF x.m = <<>> THEN FloatZero
    ELSE LET d == BigDivMod(BigShl(x.m, FLOAT_MANT_DIG + 2), y.m)
         IN FloatRound(x.sign * y.sign, d.quotient, x.e - y.e - (FLOAT_MANT_DIG + 2),
                       d.remainder # <<>>)

\* math.sqrt(x), x >= 0.0
float_sqrt(x) ==
    IF x.m = <<>> THEN FloatZero
    ELSE LET odd == x.e % 2 = 1
             n == BigShl(x.m, FLOAT_MANT_DIG + 3 + (IF odd THEN 1 ELSE 0))
             e == x.e - (FLOAT_MANT_DIG + 3) - (IF odd THEN 1 ELSE 0)
             r == BigSqrt(n)
         IN FloatRound(1, r, e \div 2, BigMul(r, r) # n)

\* The dot product divided by norm_a * norm_a.
cosine_similarity_norm_a_twice(a, b) ==
    IF Len(a) = 0 \/ Len(b) = 0 THEN FloatZero
    ELSE LET length == Min(Len(a), Len(b))
             dot == FloatOfInt(Dot(a, b, length))
             norm_a == float_sqrt(FloatOfInt(Dot(a, a, length)))
             norm_b == float_sqrt(FloatOfInt(Dot(b, b, length)))
         IN IF norm_a = FloatZero \/ norm_b = FloatZero THEN FloatZero
            ELSE float_truediv(dot, float_mul(norm_a, norm_a))

\* _cosine_similarity on two vectors of floats with integer values small
\* enough for the products a[i] * b[i] and their sums to be exact in binary64.
cosine_similarity_binary64(a, b) ==
    IF Len(a) = 0 \/ Len(b) = 0 THEN FloatZero
    ELSE LET length == Min(Len(a), Len(b))
             dot == FloatOfInt(Dot(a, b, length))
             norm_a == float_sqrt(FloatOfInt(Dot(a, a, length)))
             norm_b == float_sqrt(FloatOfInt(Dot(b, b, length)))
         IN IF norm_a = FloatZero \/ norm_b = FloatZero THEN FloatZero
            ELSE float_truediv(dot, float_mul(norm_a, norm_b))

\* The outcome of a call: it returned `value`, or it raised.
Returned(value) == [raised |-> "", value |-> value]

Raised(exception) == [raised |-> exception, value |-> <<>>]

\* _embed_text. `encoded` is the outcome of self._model.encode([text]), the
\* external embedding model: a vector, or an exception.
embed_text(self, text, encoded) ==
    IF self.model # "None" THEN encoded
    ELSE Returned(mock_embedding(text, Dim))

\* The text appended before its embedding is computed.
add_memory_text_first(self, text, encoded) ==
    LET embedding == embed_text(self, text, encoded)
        with_text == [self EXCEPT !.texts = Append(@, text)]
    IN IF embedding.raised # ""
       THEN [raised |-> embedding.raised, self |-> with_text]
       ELSE [raised |-> "",
             self |-> [with_text EXCEPT !.embeddings = Append(@, embedding.value)]]

\* A text the store already holds is not stored again.
add_memory_dedup(self, text, encoded) ==
    LET embedding == embed_text(self, text, encoded)
    IN IF embedding.raised # "" THEN [raised |-> embedding.raised, self |-> self]
       ELSE IF \E i \in 1..Len(self.texts) : self.texts[i] = text
       THEN [raised |-> "", self |-> self]
       ELSE [raised |-> "",
             self |-> [self EXCEPT !.texts = Append(@, text),
                                   !.embeddings = Append(@, embedding.value)]]

\* add_memory: the embedding is computed before either list is touched.
add_memory(self, text, encoded) ==
    LET embedding == embed_text(self, text, encoded)
    IN IF embedding.raised # "" THEN [raised |-> embedding.raised, self |-> self]
       ELSE [raised |-> "",
             self |-> [self EXCEPT !.texts = Append(@, text),
                                   !.embeddings = Append(@, embedding.value)]]

\* One step of scored.sort(key=similarity, reverse=True): the sort is stable,
\* so an item goes behind every item whose similarity is not smaller.
sort_insert(sorted, item) ==
    LET ahead == Cardinality({i \in 1..Len(sorted) :
                                ~SimLess(sorted[i].similarity, item.similarity)})
    IN SubSeq(sorted, 1, ahead) \o <<item>> \o SubSeq(sorted, ahead + 1, Len(sorted))

RECURSIVE sort_prefix(_, _)
sort_prefix(scored, n) ==
    IF n = 0 THEN <<>> ELSE sort_insert(sort_prefix(scored, n - 1), scored[n])

\* A sort that puts an item ahead of the items it ties with.
RECURSIVE sort_prefix_unstable(_, _)
sort_prefix_unstable(scored, n) ==
    IF n = 0 THEN <<>>
    ELSE LET sorted == sort_prefix_unstable(scored, n - 1)
             ahead == Cardinality({i \in 1..Len(sorted) :
                         SimLess(scored[n].similarity, sorted[i].similarity)})
         IN SubSeq(sorted, 1, ahead) \o <<scored[n]>>
            \o SubSeq(sorted, ahead + 1, Len(sorted))

sort_reverse_unstable(scored) == sort_prefix_unstable(scored, Len(scored))

sort_reverse(scored) == sort_prefix(scored, Len(scored))

\* The query embedded before the guard on k and on the store is looked at.
retrieve_embed_first(self, query, k, encoded) ==
    LET query_embedding == embed_text(self, query, encoded)
    IN IF query_embedding.raised # ""
       THEN [raised |-> query_embedding.raised, value |-> NewList(<<>>),
             embedded |-> TRUE, query_embedding |-> Vec(<<>>)]
       ELSE IF k <= 0 \/ ~Truthy(self.texts)
       THEN [raised |-> "", value |-> NewList(<<>>), embedded |-> TRUE,
             query_embedding |-> query_embedding.value]
       ELSE [raised |-> "", value |-> NewList(SubSeq(self.texts, 1, Min(k, Len(self.texts)))),
             embedded |-> TRUE, query_embedding |-> query_embedding.value]

\* retrieve
retrieve(self, query, k, encoded) ==
    IF k <= 0 \/ ~Truthy(self.texts)
    THEN [raised |-> "", value |-> NewList(<<>>), embedded |-> FALSE,
          query_embedding |-> Vec(<<>>)]
    ELSE LET query_embedding == embed_text(self, query, encoded)
             n == Min(Len(self.texts), Len(self.embeddings))
             scored == sort_reverse([i \in 1..n |->
                          [similarity |-> cosine_similarity(query_embedding.value,
                                                            self.embeddings[i]),
                           text |-> self.texts[i]]])
             top == SubSeq(scored, 1, Min(k, Len(scored)))
         IN IF query_embedding.raised # ""
            THEN [raised |-> query_embedding.raised, value |-> NewList(<<>>),
                  embedded |-> TRUE, query_embedding |-> Vec(<<>>)]
            ELSE [raised |-> "", value |-> NewList([i \in 1..Len(top) |-> top[i].text]),
                  embedded |-> TRUE, query_embedding |-> query_embedding.value]

(***************************************************************************)
(* ProfileMemory (src/memory/profile_memory.py)                            *)
(***************************************************************************)
\* str.lower() on ASCII text: 'A'..'Z' map to 'a'..'z'.
lower(text) ==
    [i \in 1..Len(text) |-> IF text[i] >= 65 /\ text[i] <= 90 THEN text[i] + 32
                            ELSE text[i]]

\* needle in text
contains(needle, text) ==
    \E i \in 0..(Len(text) - Len(needle)) :
        SubSeq(text, i + 1, i + Len(needle)) = needle

\* The liking rule tried before the negation-of-liking rule.
extract_preference_like_first(lowered) ==
    IF contains(LIKE_1, lowered) THEN PREF_LIKES
    ELSE IF contains(NEG_LIKE_1, lowered) \/ contains(NEG_LIKE_2, lowered)
            \/ contains(NEG_LIKE_3, lowered)
    THEN PREF_AVOID
    ELSE IF contains(PREFER_1, lowered) \/ contains(PREFER_2, lowered)
    THEN PREF_STATED
    ELSE <<>>

extract_preference(lowered) ==
    IF contains(NEG_LIKE_1, lowered) \/ contains(NEG_LIKE_2, lowered)
       \/ contains(NEG_LIKE_3, lowered)
    THEN PREF_AVOID
    ELSE IF contains(LIKE_1, lowered) THEN PREF_LIKES
    ELSE IF contains(PREFER_1, lowered) \/ contains(PREFER_2, lowered)
    THEN PREF_STATED
    ELSE <<>>

extract_style(lowered) ==
    IF contains(FORMAL, lowered) THEN FORMAL
    ELSE IF contains(CASUAL, lowered) \/ contains(INFORMAL, lowered) THEN CASUAL
    ELSE IF contains(CONCISE, lowered) \/ contains(BRIEF, lowered) THEN CONCISE
    ELSE IF contains(DETAILED, lowered) \/ contains(THOROUGH, lowered) THEN DETAILED
    ELSE <<>>

\* Both fields assigned whatever the extraction gave, the empty string too.
update_from_text_overwrite(self, text) ==
    LET lowered == lower(text)
    IN [self EXCEPT !.profile.preference = extract_preference(lowered),
                    !.profile.style = extract_style(lowered)]

\* A field is assigned only while it is still empty.
update_from_text_keep_first(self, text) ==
    LET lowered == lower(text)
        preference == extract_preference(lowered)
        style == extract_style(lowered)
        with_preference ==
            IF Truthy(preference) /\ ~Truthy(self.profile.preference)
            THEN [self EXCEPT !.profile.preference = preference]
            ELSE self
    IN IF Truthy(style) /\ ~Truthy(self.profile.style)
       THEN [with_preference EXCEPT !.profile.style = style]
       ELSE with_preference

update_from_text(self, text) ==
    LET lowered == lower(text)
        preference == extract_preference(lowered)
        style == extract_style(lowered)
        with_preference ==
            IF Truthy(preference) THEN [self EXCEPT !.profile.preference = preference]
            ELSE self
    IN IF Truthy(style) THEN [with_preference EXCEPT !.profile.style = style]
       ELSE with_preference

\* The style line put ahead of the preference line.
get_profile_prompt_style_first(self) ==
    LET lines1 == IF Truthy(self.profile.style)
                  THEN <<STYLE_LABEL \o self.profile.style \o PERIOD>>
                  ELSE <<>>
        lines2 == IF Truthy(self.profile.preference)
                  THEN Append(lines1, PREFERENCE_LABEL \o self.profile.preference \o PERIOD)
                  ELSE lines1
    IN join(NEWLINE, lines2)

get_profile_prompt(self) ==
    LET lines1 == IF Truthy(self.profile.preference)
                  THEN <<PREFERENCE_LABEL \o self.profile.preference \o PERIOD>>
                  ELSE <<>>
        lines2 == IF Truthy(self.profile.style)
                  THEN Append(lines1, STYLE_LABEL \o self.profile.style \o PERIOD)
                  ELSE lines1
    IN join(NEWLINE, lines2)

(***************************************************************************)
(* MemoryRouter (src/memory/memory_router.py)                              *)
(***************************************************************************)
\* retrieve called with the default retrieval size, not the router's own.
collect_memories_default_k(self, context, retrieval, profile, query, encoded) ==
    LET got_context == get_context(context)
        got_retrieval == retrieve(retrieval, query, 3, encoded)
        got_profile == get_profile_prompt(profile)
    IN [raised |-> got_retrieval.raised,
        value |-> [context |-> got_context, retrieval |-> got_retrieval.value,
                   profile |-> got_profile],
        embedded |-> got_retrieval.embedded,
        query_embedding |-> got_retrieval.query_embedding]

\* collect_memories: the dict returned (`value`) unless retrieve raised, with
\* what the retrieve call inside it did.
collect_memories(self, context, retrieval, profile, query, encoded) ==
    LET got_context == get_context(context)
        got_retrieval == retrieve(retrieval, query, self.retrieval_k, encoded)
        got_profile == get_profile_prompt(profile)
    IN [raised |-> got_retrieval.raised,
        value |-> [context |-> got_context, retrieval |-> got_retrieval.value,
                   profile |-> got_profile],
        embedded |-> got_retrieval.embedded,
        query_embedding |-> got_retrieval.query_embedding]

(***************************************************************************)
(* Inputs.                                                                 *)
(***************************************************************************)
Capacities == -1..MaxCapacity

UserTexts == {T_empty, T_Hi, T_A1}

AssistantTexts == {T_empty, T_Hello}

\* A text longer than the embedding has buckets: index Dim wraps to bucket 0.
T_wrap == [i \in 1..(Dim + 1) |-> 1]

MemoryTexts == {T_empty, T_x01, T_x02, T_x01x02}

QueryTexts == {T_empty, T_x01x02, T_wrap}

KValues == {-1, 0, 2, MaxMemoryCalls}

\* Vectors the external embedding model answers with.
StoreVectors == {<<1, 0>>, <<1, 1>>}

QueryVectors == {<<1, 0>>, <<-1, 0>>}

ModelTexts == {T_x01, T_x02}

ProfileTexts ==
    {T_hello_there, T_like_concise, T_dislike_upper, T_dont_like_but_like,
     T_prefer_like, T_prefer_formal, T_informal, T_casual, T_brief_detailed,
     T_thorough_casual, T_multi}

\* What self._model.encode can do in one call: nothing when there is no model.
Encodings(self, vectors) ==
    IF self.model = "None" THEN {Returned(Vec(<<>>))}
    ELSE {Raised("RuntimeError")} \cup {Returned(Vec(v)) : v \in vectors}

TextsFor(self, mock_texts) == IF self.model = "None" THEN mock_texts ELSE ModelTexts

NoMemories == [context |-> NewList(<<>>), retrieval |-> NewList(<<>>), profile |-> <<>>]

NoCall == [done |-> FALSE, query |-> <<>>, k |-> 0, embedded |-> FALSE,
           query_embedding |-> Vec(<<>>)]

\* _cosine_similarity not called yet, on the vectors a and b.
NoSimilarity(a, b) == [done |-> FALSE, a |-> a, b |-> b, ab |-> FloatZero, ba |-> FloatZero]

\* run_experiment not called yet.
NoRun == [pc |-> "idle", mode |-> "", user_queries |-> <<>>, query |-> <<>>,
          assistant_text |-> <<>>, assistant_responses |-> <<>>,
          retrieved |-> <<>>, generate_calls |-> 0]

NoBuild == [done |-> FALSE, context_memories |-> <<>>, retrieved_memories |-> <<>>,
            profile_prompt |-> <<>>, user_query |-> <<>>]

(***************************************************************************)
(* The state at process start: the stores that cannot fail to construct    *)
(* are built (RetrievalMemory.__init__, ProfileMemory.__init__); the       *)
(* embedding model is there or not, as the import went.                    *)
(***************************************************************************)
InitStores ==
    /\ context_memory = NoContextMemory
    /\ retrieval_memory \in {[texts |-> <<>>, embeddings |-> <<>>, model |-> m] :
                               m \in {"None", "SentenceTransformer"}}
    /\ profile_memory = [profile |-> [preference |-> <<>>, style |-> <<>>]]
    /\ router = [exists |-> FALSE, retrieval_k |-> 0]
    /\ added_turns = <<>>
    /\ memory_calls = <<>>
    /\ profile_calls = <<>>
    /\ context_out = NewList(<<>>)
    /\ retrieved_out = NewList(<<>>)
    /\ retrieve_call = NoCall
    /\ profile_out = <<>>
    /\ memories = NoMemories
    /\ collect_call = NoCall
    /\ messages = <<>>
    /\ raised = ""
    /\ encode_raised = ""
    /\ last_op = "start"
    /\ run = NoRun

Init == InitStores /\ build_args = NoBuild /\ similarity = NoSimilarity(<<>>, <<>>)

(***************************************************************************)
(* Actions: one per call.                                                  *)
(***************************************************************************)
ConstructContext(max_turns) ==
    /\ ~context_memory.exists
    /\ \E r \in {ContextMemory_init(max_turns)} :
          /\ context_memory' = r.self
          /\ raised' = r.raised
    /\ encode_raised' = ""
    /\ last_op' = "ContextMemory"
    /\ UNCHANGED similarity
    /\ UNCHANGED run
    /\ UNCHANGED <<retrieval_memory, profile_memory, router, history, results, built>>

AddTurn(user_text, assistant_text) ==
    /\ context_memory.exists
    /\ Len(added_turns) < MaxAddTurns
    /\ context_memory' = add_turn(context_memory, user_text, assistant_text)
    /\ added_turns' = Append(added_turns,
                             [user |-> user_text, assistant |-> assistant_text])
    /\ raised' = ""
    /\ encode_raised' = ""
    /\ last_op' = "add_turn"
    /\ UNCHANGED similarity
    /\ UNCHANGED run
    /\ UNCHANGED <<retrieval_memory, profile_memory, router, memory_calls,
                   profile_calls, results, built>>

GetContext ==
    /\ context_memory.exists
    /\ context_out' = get_context(context_memory)
    /\ raised' = ""
    /\ encode_raised' = ""
    /\ last_op' = "get_context"
    /\ UNCHANGED similarity
    /\ UNCHANGED run
    /\ UNCHANGED <<stores, history, retrieved_out, retrieve_call, profile_out,
                   memories, collect_call, built>>

AddMemory(text, encoded) ==
    /\ Len(memory_calls) < MaxMemoryCalls
    /\ \E r \in {add_memory(retrieval_memory, text, encoded)},
          embedding \in {embed_text(retrieval_memory, text, encoded)} :
          /\ retrieval_memory' = r.self
          /\ raised' = r.raised
          /\ encode_raised' = encoded.raised
          /\ memory_calls' = IF r.raised = ""
                             THEN Append(memory_calls, [text |-> text,
                                                        embedding |-> embedding.value])
                             ELSE memory_calls
    /\ last_op' = "add_memory"
    /\ UNCHANGED similarity
    /\ UNCHANGED run
    /\ UNCHANGED <<context_memory, profile_memory, router, added_turns,
                   profile_calls, results, built>>

Retrieve(query, k, encoded) ==
    /\ \E r \in {retrieve(retrieval_memory, query, k, encoded)} :
          /\ raised' = r.raised
          /\ encode_raised' = IF r.embedded THEN encoded.raised ELSE ""
          /\ retrieved_out' = IF r.raised = "" THEN r.value ELSE retrieved_out
          /\ retrieve_call' = IF r.raised = ""
                              THEN [done |-> TRUE, query |-> query, k |-> k,
                                    embedded |-> r.embedded,
                                    query_embedding |-> r.query_embedding]
                              ELSE retrieve_call
    /\ last_op' = "retrieve"
    /\ UNCHANGED similarity
    /\ UNCHANGED run
    /\ UNCHANGED <<stores, history, context_out, profile_out, memories,
                   collect_call, built>>

UpdateFromText(text) ==
    /\ Len(profile_calls) < MaxProfileCalls
    /\ profile_memory' = update_from_text(profile_memory, text)
    /\ profile_calls' = Append(profile_calls, text)
    /\ raised' = ""
    /\ encode_raised' = ""
    /\ last_op' = "update_from_text"
    /\ UNCHANGED similarity
    /\ UNCHANGED run
    /\ UNCHANGED <<context_memory, retrieval_memory, router, added_turns,
                   memory_calls, results, built>>

GetProfilePrompt ==
    /\ profile_out' = get_profile_prompt(profile_memory)
    /\ raised' = ""
    /\ encode_raised' = ""
    /\ last_op' = "get_profile_prompt"
    /\ UNCHANGED similarity
    /\ UNCHANGED run
    /\ UNCHANGED <<stores, history, context_out, retrieved_out, retrieve_call,
                   memories, collect_call, built>>

\* MemoryRouter.__init__: needs the three stores.
ConstructRouter(retrieval_k) ==
    /\ context_memory.exists
    /\ ~router.exists
    /\ router' = [exists |-> TRUE, retrieval_k |-> retrieval_k]
    /\ raised' = ""
    /\ encode_raised' = ""
    /\ last_op' = "MemoryRouter"
    /\ UNCHANGED similarity
    /\ UNCHANGED run
    /\ UNCHANGED <<context_memory, retrieval_memory, profile_memory, history,
                   results, built>>

CollectMemories(query, encoded) ==
    /\ router.exists
    /\ \E r \in {collect_memories(router, context_memory, retrieval_memory,
                                   profile_memory, query, encoded)} :
          /\ raised' = r.raised
          /\ encode_raised' = IF r.embedded THEN encoded.raised ELSE ""
          /\ memories' = IF r.raised = "" THEN r.value ELSE memories
          /\ collect_call' = IF r.raised = ""
                             THEN [done |-> TRUE, query |-> query,
                                   k |-> router.retrieval_k, embedded |-> r.embedded,
                                   query_embedding |-> r.query_embedding]
                             ELSE collect_call
    /\ last_op' = "collect_memories"
    /\ UNCHANGED similarity
    /\ UNCHANGED run
    /\ UNCHANGED <<stores, history, context_out, retrieved_out, retrieve_call,
                   profile_out, built>>

\* A call of build_messages, made by `op`.
Build(op, context_memories, retrieved_memories, prompt, user_query) ==
    /\ messages' = build_messages(context_memories, retrieved_memories, prompt,
                                  user_query)
    /\ build_args' = [done |-> TRUE, context_memories |-> context_memories,
                      retrieved_memories |-> retrieved_memories,
                      profile_prompt |-> prompt, user_query |-> user_query]
    /\ raised' = ""
    /\ encode_raised' = ""
    /\ last_op' = op
    /\ UNCHANGED similarity
    /\ UNCHANGED run
    /\ UNCHANGED <<stores, history, results>>

\* build_messages on the arguments the caller chose.
BuildMessages ==
    /\ ~build_args.done
    /\ Build("build_messages", build_args.context_memories,
             build_args.retrieved_memories, build_args.profile_prompt,
             build_args.user_query)

\* The rendering of _build_messages_hierarchical: build_messages on the dict
\* collect_memories returned, read when the rendering happens.
Render ==
    /\ collect_call.done
    /\ Build("render", Deref(memories.context), Deref(memories.retrieval),
             memories.profile, collect_call.query)

\* _cosine_similarity(a, b) and _cosine_similarity(b, a) on the vectors drawn.
CosineSimilarity ==
    /\ ~similarity.done
    /\ similarity' = [similarity EXCEPT
                        !.done = TRUE,
                        !.ab = cosine_similarity_binary64(similarity.a, similarity.b),
                        !.ba = cosine_similarity_binary64(similarity.b, similarity.a)]
    /\ raised' = ""
    /\ encode_raised' = ""
    /\ last_op' = "_cosine_similarity"
    /\ UNCHANGED <<stores, history, results, built, run>>

(***************************************************************************)
(* run_experiment (src/experiments/run_experiment.py)                      *)
(***************************************************************************)
\* ContextMemory(max_turns=4)
RUN_MAX_TURNS == 4

\* MemoryRouter(..., retrieval_k=3) and the default k of
\* _build_messages_with_retrieval
RUN_RETRIEVAL_K == 3

Modes == {"no_memory", "context", "retrieval", "hierarchical"}

\* LLMClient.__init__: raises when the openai SDK is not installed or the API
\* key is not set in the environment.
LLMClient_init(env) ==
    CASE env = "no_sdk" -> "ImportError"
      [] env = "no_api_key" -> "ValueError"
      [] OTHER -> ""

\* f"User: {query}\nAssistant: {assistant_text}"
memory_text(query, assistant_text) ==
    USER_PREFIX \o query \o ASSISTANT_SEP \o assistant_text

Built(value, retrieved, embedded) ==
    [raised |-> "", value |-> value, retrieved |-> retrieved, embedded |-> embedded]

NotBuilt(exception, embedded) ==
    [raised |-> exception, value |-> <<>>, retrieved |-> <<>>, embedded |-> embedded]

build_messages_no_memory(query) == <<Message("user", query)>>

\* The query put into the context store before the messages are built.
build_messages_with_context_after_add(context, query) ==
    build_messages(Deref(get_context(add_turn(context, query, <<>>))), <<>>, <<>>, query)

build_messages_with_context(context, query) ==
    build_messages(Deref(get_context(context)), <<>>, <<>>, query)

build_messages_with_retrieval(retrieval, query, k, encoded) ==
    LET retrieved == retrieve(retrieval, query, k, encoded)
    IN IF retrieved.raised # "" THEN NotBuilt(retrieved.raised, retrieved.embedded)
       ELSE Built(build_messages(<<>>, Deref(retrieved.value), <<>>, query),
                  Deref(retrieved.value), retrieved.embedded)

build_messages_hierarchical(self, context, retrieval, profile, query, encoded) ==
    LET collected == collect_memories(self, context, retrieval, profile, query, encoded)
    IN IF collected.raised # "" THEN NotBuilt(collected.raised, collected.embedded)
       ELSE Built(build_messages(Deref(collected.value.context),
                                 Deref(collected.value.retrieval),
                                 collected.value.profile, query),
                  Deref(collected.value.retrieval), collected.embedded)

\* Lines 96-105: the messages for one query, by mode.
run_build(mode, query, encoded) ==
    CASE mode = "no_memory" -> Built(build_messages_no_memory(query), <<>>, FALSE)
      [] mode = "context" ->
           Built(build_messages_with_context(context_memory, query), <<>>, FALSE)
      [] mode = "retrieval" ->
           build_messages_with_retrieval(retrieval_memory, query, RUN_RETRIEVAL_K, encoded)
      [] mode = "hierarchical" ->
           build_messages_hierarchical(router, context_memory, retrieval_memory,
                                       profile_memory, query, encoded)
      [] OTHER -> NotBuilt("ValueError: Unsupported mode", FALSE)

\* A write-back that adds the turn to the context store in every mode with
\* a memory.
writes_turns_with_any_memory(mode) == mode \in {"context", "retrieval", "hierarchical"}

\* Lines 112-119: the stores the write-back of a mode writes to.
writes_turns(mode) == mode \in {"context", "hierarchical"}

writes_memory(mode) == mode \in {"retrieval", "hierarchical"}

writes_profile(mode) == mode = "hierarchical"

\* Lines 82-94: the collaborators are constructed; the loop has not started.
RunExperiment(mode, env) ==
    /\ run.pc = "idle"
    /\ \E llm \in {LLMClient_init(env)}, built_context \in {ContextMemory_init(RUN_MAX_TURNS)} :
          IF llm # ""
          THEN /\ run' = [run EXCEPT !.pc = "raised", !.mode = mode]
               /\ raised' = llm
               /\ UNCHANGED <<context_memory, router>>
          ELSE /\ run' = [run EXCEPT !.pc = "loop", !.mode = mode]
               /\ raised' = built_context.raised
               /\ context_memory' = built_context.self
               /\ router' = [exists |-> TRUE, retrieval_k |-> RUN_RETRIEVAL_K]
    /\ encode_raised' = ""
    /\ last_op' = "run_experiment"
    /\ UNCHANGED similarity
    /\ UNCHANGED <<retrieval_memory, profile_memory, history, results, built>>

\* Line 95 with user_queries exhausted, line 120: the call returns
\* assistant_responses.
RunReturn ==
    /\ run.pc = "loop"
    /\ run' = [run EXCEPT !.pc = "returned"]
    /\ raised' = ""
    /\ encode_raised' = ""
    /\ last_op' = "return"
    /\ UNCHANGED similarity
    /\ UNCHANGED <<stores, history, results, built>>

\* Lines 95-105: the next query is taken and its messages are built, or the
\* mode is refused.
RunBuild(query, encoded) ==
    /\ run.pc = "loop"
    /\ Len(run.user_queries) < MaxQueries
    /\ \E r \in {run_build(run.mode, query, encoded)} :
          /\ raised' = r.raised
          /\ encode_raised' = IF r.embedded THEN encoded.raised ELSE ""
          /\ messages' = IF r.raised = "" THEN r.value ELSE messages
          /\ run' = [run EXCEPT !.pc = IF r.raised = "" THEN "generate" ELSE "raised",
                                !.user_queries = Append(@, query),
                                !.query = query,
                                !.retrieved = r.retrieved]
    /\ last_op' = "build"
    /\ UNCHANGED similarity
    /\ UNCHANGED <<stores, history, results, build_args>>

\* Lines 107-109: llm.generate(messages) answers (a reply, or its in-band
\* error text) and the answer is kept.
RunGenerate(reply) ==
    /\ run.pc = "generate"
    /\ run' = [run EXCEPT !.pc = "write",
                          !.assistant_text = reply,
                          !.assistant_responses = Append(@, reply),
                          !.generate_calls = @ + 1]
    /\ raised' = ""
    /\ encode_raised' = ""
    /\ last_op' = "generate"
    /\ UNCHANGED similarity
    /\ UNCHANGED <<stores, history, results, built>>

\* Lines 112-119: the turn is written to the stores of the mode.
RunWrite(encoded) ==
    /\ run.pc = "write"
    /\ LET turns == writes_turns(run.mode)
           texts == writes_memory(run.mode)
           profiles == writes_profile(run.mode)
           text == memory_text(run.query, run.assistant_text)
       IN \E added \in {IF texts THEN add_memory(retrieval_memory, text, encoded)
                        ELSE [raised |-> "", self |-> retrieval_memory]},
             embedding \in {embed_text(retrieval_memory, text, encoded)} :
             /\ context_memory' = IF turns
                                  THEN add_turn(context_memory, run.query, run.assistant_text)
                                  ELSE context_memory
             /\ added_turns' = IF turns
                               THEN Append(added_turns, [user |-> run.query,
                                                         assistant |-> run.assistant_text])
                               ELSE added_turns
             /\ retrieval_memory' = added.self
             /\ memory_calls' = IF texts /\ added.raised = ""
                                THEN Append(memory_calls, [text |-> text,
                                                           embedding |-> embedding.value])
                                ELSE memory_calls
             /\ profile_memory' = IF profiles /\ added.raised = ""
                                  THEN update_from_text(profile_memory, run.query)
                                  ELSE profile_memory
             /\ profile_calls' = IF profiles /\ added.raised = ""
                                 THEN Append(profile_calls, run.query)
                                 ELSE profile_calls
             /\ raised' = added.raised
             /\ encode_raised' = IF texts THEN encoded.raised ELSE ""
             /\ run' = [run EXCEPT !.pc = IF added.raised = "" THEN "loop" ELSE "raised"]
    /\ last_op' = "write"
    /\ UNCHANGED similarity
    /\ UNCHANGED <<router, results, built>>

(***************************************************************************)
(* Specifications.                                                         *)
(***************************************************************************)
SeqsUpTo(S, n) == UNION {[1..m -> S] : m \in 0..n}

\* ContextMemory alone.
NextContext ==
    \/ \E max_turns \in Capacities : ConstructContext(max_turns)
    \/ \E user_text \in UserTexts, assistant_text \in AssistantTexts :
          AddTurn(user_text, assistant_text)
    \/ GetContext

SpecContext == Init /\ [][NextContext]_vars

\* RetrievalMemory alone.
NextRetrieval ==
    \/ \E text \in TextsFor(retrieval_memory, MemoryTexts),
          encoded \in Encodings(retrieval_memory, StoreVectors) :
          AddMemory(text, encoded)
    \/ \E query \in TextsFor(retrieval_memory, QueryTexts), k \in KValues,
          encoded \in Encodings(retrieval_memory, QueryVectors) :
          Retrieve(query, k, encoded)

SpecRetrieval == Init /\ [][NextRetrieval]_vars

\* ProfileMemory alone.
NextProfile ==
    \/ \E text \in ProfileTexts : UpdateFromText(text)
    \/ GetProfilePrompt

SpecProfile == Init /\ [][NextProfile]_vars

\* PromptBuilder.build_messages as a function of its arguments.
BuildTurns ==
    {[user |-> u, assistant |-> a] : u \in {T_empty, T_Hi}, a \in {T_empty, T_Hello}}
    \cup {[user |-> T_A1], [assistant |-> T_Hello]}

InitBuilder ==
    /\ InitStores
    /\ similarity = NoSimilarity(<<>>, <<>>)
    /\ build_args \in
         {[done |-> FALSE, context_memories |-> cm, retrieved_memories |-> rm,
           profile_prompt |-> pp, user_query |-> q] :
             cm \in SeqsUpTo(BuildTurns, MaxBuildTurns),
             rm \in SeqsUpTo({T_Hi, NEWLINE}, MaxBuildTexts),
             pp \in {T_empty, T_like_concise},
             q \in {T_empty, T_Hi}}

NextBuilder == BuildMessages

SpecBuilder == InitBuilder /\ [][NextBuilder]_vars

\* The whole memory subsystem behind one router.
RunCalls == Len(added_turns) + Len(memory_calls) + Len(profile_calls)

Next ==
    \/ \E max_turns \in {0, 2} : ConstructContext(max_turns)
    \/ \E retrieval_k \in {1, 2} : ConstructRouter(retrieval_k)
    \/ /\ router.exists /\ RunCalls < MaxRunCalls
       /\ \E user_text \in {T_Hi, T_A1} : AddTurn(user_text, T_Hello)
    \/ /\ router.exists /\ RunCalls < MaxRunCalls
       /\ \E text \in {T_x01, T_x01x02},
             encoded \in Encodings(retrieval_memory, {<<1, 0>>}) :
             AddMemory(text, encoded)
    \/ /\ router.exists /\ RunCalls < MaxRunCalls
       /\ \E text \in {T_like_concise, T_dislike_upper} : UpdateFromText(text)
    \/ \E encoded \in Encodings(retrieval_memory, {<<1, 0>>}) :
          CollectMemories(T_x01x02, encoded)
    \/ Render

Spec == Init /\ [][Next]_vars

\* _cosine_similarity as a function of its two arguments.
Components == {-1, 0, 3}

InitCosine ==
    /\ InitStores
    /\ retrieval_memory.model = "None"
    /\ build_args = NoBuild
    /\ similarity \in {NoSimilarity(a, b) : a, b \in SeqsUpTo(Components, MaxVectorLen)}

NextCosine == CosineSimilarity

SpecCosine == InitCosine /\ [][NextCosine]_vars

\* One call of run_experiment, from process start.
Replies == {T_Hello, T_x02}

RunQueries == IF retrieval_memory.model = "None" THEN {T_empty, T_x01}
              ELSE {T_Hi, T_like_concise}

NextDriver ==
    \/ \E mode \in Modes \cup {"hybrid", "Context"}, env \in {"ok", "no_sdk", "no_api_key"} :
          RunExperiment(mode, env)
    \/ RunReturn
    \/ \E query \in RunQueries, encoded \in Encodings(retrieval_memory, {<<1, 0>>, <<0, 1>>}) :
          RunBuild(query, encoded)
    \/ \E reply \in Replies : RunGenerate(reply)
    \/ \E encoded \in Encodings(retrieval_memory, {<<1, 0>>}) : RunWrite(encoded)

SpecDriver == Init /\ [][NextDriver]_vars

(***************************************************************************)
(* Claims.                                                                 *)
(***************************************************************************)
\* The last m entries of a history, oldest first.
LastOf(log, m) == [i \in 1..m |-> log[Len(log) - m + i]]

\* C1: with max_turns = N, the store never holds more than N turns, and
\* get_context() returns exactly the last min(N, number of add_turn calls)
\* turns added, oldest first (the empty list when none was added).
C1_SlidingWindow ==
    /\ Len(context_memory.turns) <= context_memory.max_turns
    /\ last_op = "get_context" =>
         Deref(context_out) =
           LastOf(added_turns, Min(context_memory.max_turns, Len(added_turns)))

\* C1 witness: get_context after two turns were evicted from a store of two.
C1_Witness ==
    /\ last_op = "get_context"
    /\ context_memory.max_turns = 2
    /\ Len(added_turns) = 4
    /\ Len(Deref(context_out)) = 2
    /\ added_turns[1] # added_turns[3]

\* The arguments of the last build_messages call.
ArgProfile == build_args.profile_prompt

ArgRetrieved == build_args.retrieved_memories

ArgTurns == build_args.context_memories

ArgQuery == build_args.user_query

TurnText(j, key) == IF key \in DOMAIN ArgTurns[j] THEN ArgTurns[j][key] ELSE <<>>

ProfileCount == IF ArgProfile # <<>> THEN 1 ELSE 0

RetrievedCount == IF ArgRetrieved # <<>> THEN 1 ELSE 0

\* The number of non-empty texts in the first n context turns.
TurnTextCount(n) ==
    Cardinality({jk \in (1..n) \X {"user", "assistant"} : TurnText(jk[1], jk[2]) # <<>>})

\* Where the line of the i-th retrieved text starts in the memories message.
RECURSIVE LineStart(_)
LineStart(i) ==
    IF i = 1 THEN Len(MEMORIES_HEADER)
    ELSE LineStart(i - 1) + Len(BULLET) + Len(ArgRetrieved[i - 1]) + Len(NEWLINE)

\* content is the header line, then one bulleted line per retrieved text, in
\* the order received, with a newline between two lines and none at the end.
ListsRetrieved(content) ==
    LET n == Len(ArgRetrieved)
    IN /\ Len(content) = LineStart(n) + Len(BULLET) + Len(ArgRetrieved[n])
       /\ SubSeq(content, 1, Len(MEMORIES_HEADER)) = MEMORIES_HEADER
       /\ \A i \in 1..n :
            /\ SubSeq(content, LineStart(i) + 1, LineStart(i) + 2) = BULLET
            /\ SubSeq(content, LineStart(i) + 3, LineStart(i) + 2 + Len(ArgRetrieved[i]))
                 = ArgRetrieved[i]
            /\ i < n => content[LineStart(i + 1)] = 10

\* C2: build_messages returns: the profile prompt as a system message iff it
\* is non-empty; then a system message listing the retrieved texts iff there
\* are any; then per context turn, in order, a user message iff its user text
\* is non-empty and an assistant message iff its assistant text is non-empty;
\* then one user message with the query, even an empty one; and nothing else.
C2_MessageOrder ==
    build_args.done =>
      /\ Len(messages) = ProfileCount + RetrievedCount + TurnTextCount(Len(ArgTurns)) + 1
      /\ ProfileCount = 1 => messages[1] = [role |-> "system", content |-> ArgProfile]
      /\ RetrievedCount = 1 =>
           /\ messages[ProfileCount + 1].role = "system"
           /\ ListsRetrieved(messages[ProfileCount + 1].content)
      /\ \A j \in 1..Len(ArgTurns) :
           LET before == ProfileCount + RetrievedCount + TurnTextCount(j - 1)
               user_at == before + 1
               assistant_at == IF TurnText(j, "user") # <<>> THEN before + 2
                               ELSE before + 1
           IN /\ TurnText(j, "user") # <<>> =>
                   messages[user_at] =
                     [role |-> "user", content |-> TurnText(j, "user")]
              /\ TurnText(j, "assistant") # <<>> =>
                   messages[assistant_at] =
                     [role |-> "assistant", content |-> TurnText(j, "assistant")]
      /\ messages[Len(messages)] = [role |-> "user", content |-> ArgQuery]

\* C2 witness: every kind of message is present, a turn lacks its user text
\* and the query is empty.
C2_Witness ==
    /\ build_args.done
    /\ ArgProfile # <<>>
    /\ Len(ArgRetrieved) = 2
    /\ Len(ArgTurns) = 2
    /\ TurnText(1, "user") = <<>> /\ TurnText(1, "assistant") # <<>>
    /\ TurnText(2, "user") # <<>> /\ TurnText(2, "assistant") # <<>>
    /\ ArgQuery = <<>>
    /\ Len(messages) = 6

\* What the last retrieve (or the retrieve inside the last collect_memories)
\* ranked against: similarity of stored record i to the query embedding.
SimTo(query_embedding, i) ==
    cosine_similarity(query_embedding, retrieval_memory.embeddings[i])

\* The sequences of m distinct record indices of a store of n records.
Picks(n, m) ==
    {p \in [1..m -> 1..n] : \A a, b \in 1..m : a # b => p[a] # p[b]}

\* p ranks the top Len(p) records for the query embedding q: similarities do
\* not increase along p, records of equal similarity keep their insertion
\* order, and no record left out beats or precedes-at-a-tie a record of p.
IsRanking(p, q, n) ==
    /\ \A a, b \in DOMAIN p :
         a < b => /\ ~SimLess(SimTo(q, p[a]), SimTo(q, p[b]))
                  /\ SimEqual(SimTo(q, p[a]), SimTo(q, p[b])) => p[a] < p[b]
    /\ \A a \in DOMAIN p, i \in 1..n :
         (\A b \in DOMAIN p : p[b] # i) =>
            /\ ~SimLess(SimTo(q, p[a]), SimTo(q, i))
            /\ SimEqual(SimTo(q, p[a]), SimTo(q, i)) => p[a] < i

\* result is the texts of the top min(k, store size) records, ranked.
IsRetrieval(result, q, k) ==
    LET n == Len(retrieval_memory.texts)
    IN \E p \in Picks(n, Min(k, n)) :
          /\ IsRanking(p, q, n)
          /\ result = [i \in 1..Min(k, n) |-> retrieval_memory.texts[p[i]]]

\* C3: on a non-empty store and for k >= 1, retrieve(query, k) returns
\* min(k, store size) stored texts by non-increasing cosine similarity to the
\* query embedding, records of equal similarity in insertion order; every
\* stored text when k is at least the store size.
C3_RankedRetrieval ==
    (/\ last_op = "retrieve" /\ raised = ""
     /\ retrieve_call.k >= 1 /\ retrieval_memory.texts # <<>>) =>
       /\ Len(Deref(retrieved_out)) = Min(retrieve_call.k, Len(retrieval_memory.texts))
       /\ IsRetrieval(Deref(retrieved_out), retrieve_call.query_embedding,
                      retrieve_call.k)

\* C3 witness: three records, the two best tie and follow a worse one in
\* insertion order, and k = 2 cuts the worse one off.
C3_Witness ==
    /\ last_op = "retrieve" /\ raised = ""
    /\ retrieve_call.k = 2
    /\ Len(retrieval_memory.texts) = 3
    /\ LET q == retrieve_call.query_embedding
       IN /\ SimLess(SimTo(q, 1), SimTo(q, 2))
          /\ SimEqual(SimTo(q, 2), SimTo(q, 3))
    /\ retrieval_memory.texts[2] # retrieval_memory.texts[3]
    /\ Deref(retrieved_out) = <<retrieval_memory.texts[2], retrieval_memory.texts[3]>>

\* C4: texts and embeddings always have the same length; an add_memory call
\* whose embedding computation raises raises that failure to its caller and
\* leaves both lists as they were.
C4_ParallelLists ==
    /\ [](Len(retrieval_memory.texts) = Len(retrieval_memory.embeddings))
    /\ [][(last_op' = "add_memory" /\ encode_raised' # "") =>
            /\ raised' = encode_raised'
            /\ retrieval_memory'.texts = retrieval_memory.texts
            /\ retrieval_memory'.embeddings = retrieval_memory.embeddings]_vars

\* C4 witness: the embedding model raised in an add_memory on a store that
\* holds records.
C4_Witness ==
    /\ last_op = "add_memory"
    /\ encode_raised # ""
    /\ raised = encode_raised
    /\ Len(retrieval_memory.texts) >= 2

\* How often t occurs in a sequence.
Count(seq, t) == Cardinality({i \in DOMAIN seq : seq[i] = t})

\* C10: the stored texts are the arguments of the add_memory calls that
\* returned, in call order and duplicates included, each with the embedding
\* computed in its call; a retrieve with k >= store size returns every stored
\* text as often as it was added.
C10_AppendOnly ==
    /\ retrieval_memory.texts = [i \in 1..Len(memory_calls) |-> memory_calls[i].text]
    /\ retrieval_memory.embeddings =
         [i \in 1..Len(memory_calls) |-> memory_calls[i].embedding]
    /\ (/\ last_op = "retrieve" /\ raised = ""
        /\ retrieve_call.k >= Len(memory_calls)) =>
          \A i \in 1..Len(memory_calls) :
             Count(Deref(retrieved_out), memory_calls[i].text)
               = Count(retrieval_memory.texts, memory_calls[i].text)

\* C10 witness: the same text added twice, another one between, and a
\* retrieve that returns all three entries.
C10_Witness ==
    /\ last_op = "retrieve" /\ raised = ""
    /\ Len(memory_calls) = 3
    /\ memory_calls[1].text = memory_calls[3].text
    /\ memory_calls[1].text # memory_calls[2].text
    /\ retrieve_call.k >= 3
    /\ Count(Deref(retrieved_out), memory_calls[1].text) = 2

\* The rules of the profile store as ordered tables: the cue phrases of a
\* rule and the value it sets.
PreferenceRules ==
    <<[phrases |-> {NEG_LIKE_1, NEG_LIKE_2, NEG_LIKE_3}, value |-> PREF_AVOID],
      [phrases |-> {LIKE_1}, value |-> PREF_LIKES],
      [phrases |-> {PREFER_1, PREFER_2}, value |-> PREF_STATED]>>

StyleRules ==
    <<[phrases |-> {FORMAL}, value |-> FORMAL],
      [phrases |-> {CASUAL, INFORMAL}, value |-> CASUAL],
      [phrases |-> {CONCISE, BRIEF}, value |-> CONCISE],
      [phrases |-> {DETAILED, THOROUGH}, value |-> DETAILED]>>

\* The rules of a table a text matches, whatever its letter case.
Matching(rules, text) ==
    {r \in DOMAIN rules : \E phrase \in rules[r].phrases : contains(phrase, lower(text))}

\* The value of the first rule of the table the text matches.
FirstValue(rules, text) ==
    rules[CHOOSE r \in Matching(rules, text) :
            \A s \in Matching(rules, text) : r <= s].value

LastText == profile_calls[Len(profile_calls)]

Preference == profile_memory.profile.preference

Style == profile_memory.profile.style

\* C5: an update_from_text call whose text matches no preference rule leaves
\* preference unchanged, and one whose text matches no style rule leaves style
\* unchanged (so a text matching neither changes nothing), whatever the state.
C5_Frame ==
    [][last_op' = "update_from_text" =>
         LET text == profile_calls'[Len(profile_calls')]
         IN /\ Matching(PreferenceRules, text) = {} =>
                 profile_memory'.profile.preference = Preference
            /\ Matching(StyleRules, text) = {} =>
                 profile_memory'.profile.style = Style]_vars

\* C5 witness: both fields are set and the last call matched neither rule set.
C5_Witness ==
    /\ last_op = "update_from_text"
    /\ Matching(PreferenceRules, LastText) = {}
    /\ Matching(StyleRules, LastText) = {}
    /\ Preference # <<>>
    /\ Style # <<>>

\* C6: a text that matches preference rules sets preference to the value of
\* the first it matches in the order negation-of-liking, liking,
\* preference-statement; a text that matches style rules sets style to the
\* value of the first it matches in the order formal, casual, concise,
\* detailed; one call can set both fields.
C6_RulePriority ==
    last_op = "update_from_text" =>
      /\ Matching(PreferenceRules, LastText) # {} =>
           Preference = FirstValue(PreferenceRules, LastText)
      /\ Matching(StyleRules, LastText) # {} =>
           Style = FirstValue(StyleRules, LastText)
      /\ LastText = T_like_concise => Preference = PREF_LIKES /\ Style = CONCISE

\* C6 witness: one call whose text matches two preference rules and two style
\* rules sets both fields, each by its first rule.
C6_Witness ==
    /\ last_op = "update_from_text"
    /\ Matching(PreferenceRules, LastText) = {2, 3}
    /\ Matching(StyleRules, LastText) = {3, 4}
    /\ Preference = PREF_LIKES
    /\ Style = CONCISE

\* The value the most recent matching call of the history gives a field.
MostRecent(rules) ==
    LET hits == {i \in 1..Len(profile_calls) : Matching(rules, profile_calls[i]) # {}}
    IN IF hits = {} THEN <<>>
       ELSE FirstValue(rules, profile_calls[CHOOSE i \in hits : \A j \in hits : j <= i])

\* C7: each field holds the value of the most recent update_from_text call
\* that matched a rule for it, and is empty only if none did; a field once
\* set is never empty again.
C7_MostRecentSignal ==
    /\ [](Preference = MostRecent(PreferenceRules) /\ Style = MostRecent(StyleRules))
    /\ [][/\ Preference # <<>> => profile_memory'.profile.preference # <<>>
          /\ Style # <<>> => profile_memory'.profile.style # <<>>]_vars

\* C7 witness: both fields set in one call, an unrelated text, then a
\* negation-of-liking text: preference is overwritten, style is kept.
C7_Witness ==
    /\ profile_calls = <<T_like_concise, T_hello_there, T_dislike_upper>>
    /\ Preference = PREF_AVOID
    /\ Style = CONCISE

\* The profile prompt of the profile store as it is now: a line per field
\* that is set, preference first.
PreferenceLine == PREFERENCE_LABEL \o Preference \o PERIOD

StyleLine == STYLE_LABEL \o Style \o PERIOD

ProfileLines ==
    CASE Preference = <<>> /\ Style = <<>> -> <<>>
      [] Preference # <<>> /\ Style = <<>> -> PreferenceLine
      [] Preference = <<>> /\ Style # <<>> -> StyleLine
      [] OTHER -> PreferenceLine \o NEWLINE \o StyleLine

\* C8: collect_memories(query) returns the dict of get_context(),
\* retrieve(query, k) for the k the router was built with, and
\* get_profile_prompt(), and changes none of the three stores; on three
\* untouched stores it returns {context: [], retrieval: [], profile: ""}.
C8_CollectMemories ==
    /\ []((last_op = "collect_memories" /\ raised = "") =>
            /\ DOMAIN memories = {"context", "retrieval", "profile"}
            /\ Deref(memories.context) = context_memory.turns
            /\ IF router.retrieval_k <= 0 \/ retrieval_memory.texts = <<>>
               THEN Deref(memories.retrieval) = <<>>
               ELSE IsRetrieval(Deref(memories.retrieval),
                                collect_call.query_embedding, router.retrieval_k)
            /\ memories.profile = ProfileLines
            /\ (added_turns = <<>> /\ memory_calls = <<>> /\ profile_calls = <<>>) =>
                 /\ Deref(memories.context) = <<>>
                 /\ Deref(memories.retrieval) = <<>>
                 /\ memories.profile = <<>>)
    /\ [][last_op' = "collect_memories" => UNCHANGED <<stores, history>>]_vars

\* C8 witness: collect_memories returned with all three stores holding
\* something and more records stored than the router asks for.
C8_Witness ==
    /\ last_op = "collect_memories" /\ raised = ""
    /\ Len(Deref(memories.context)) >= 1
    /\ Len(retrieval_memory.texts) > router.retrieval_k
    /\ Len(Deref(memories.retrieval)) = router.retrieval_k
    /\ memories.profile # <<>>

\* C9: what collect_memories returned reads the same after any later
\* add_turn, add_memory or update_from_text as when it was returned, so the
\* messages rendered from it are those of the moment of aggregation.
C9_SnapshotIsolation ==
    collect_call.done =>
      /\ Deref(memories.context) = memories.context.items
      /\ Deref(memories.retrieval) = memories.retrieval.items
      /\ last_op = "render" =>
           messages = build_messages(memories.context.items, memories.retrieval.items,
                                     memories.profile, collect_call.query)

\* C9 witness: rendered after the aggregation, with the context store, the
\* vector store and the profile store all changed in between.
C9_Witness ==
    /\ last_op = "render"
    /\ context_memory.turns # memories.context.items
    /\ Len(memories.context.items) >= 1
    /\ Len(retrieval_memory.texts) > 0
    /\ memories.retrieval.items = <<>>
    /\ memories.profile # ProfileLines

\* C11: retrieve(query, k) with k <= 0 or on an empty store returns the empty
\* list for every query, without calling the embedding function (so whatever
\* the embedding model would have done, nothing is raised) and without
\* changing the store.
C11_EmptyRetrieve ==
    [][\A query \in QueryTexts \cup ModelTexts, k \in KValues,
          encoded \in Encodings(retrieval_memory, QueryVectors) :
          (/\ last_op' = "retrieve"
           /\ k <= 0 \/ retrieval_memory.texts = <<>>
           /\ Retrieve(query, k, encoded)) =>
             /\ raised' = ""
             /\ Deref(retrieved_out') = <<>>
             /\ ~retrieve_call'.embedded
             /\ encode_raised' = ""
             /\ UNCHANGED <<stores, history>>]_vars

\* C11 witness: retrieve with a negative k returned on a store that holds
\* records and whose embedding model can raise.
C11_Witness ==
    /\ last_op = "retrieve" /\ raised = ""
    /\ retrieve_call.k < 0
    /\ Len(retrieval_memory.texts) >= 2
    /\ retrieval_memory.model # "None"
    /\ Deref(retrieved_out) = <<>>
    /\ ~retrieve_call.embedded

\* C12: ContextMemory(max_turns) raises for every max_turns <= 0 and leaves no
\* store object behind (nothing can be added to or read from it); for every
\* max_turns >= 1 it returns a store of that capacity holding no turn.
C12_Construction ==
    /\ [](~context_memory.exists =>
            context_memory = NoContextMemory /\ added_turns = <<>>)
    /\ [][\A max_turns \in Capacities :
            ConstructContext(max_turns) =>
              IF max_turns <= 0
              THEN /\ raised' = "ValueError"
                   /\ ~context_memory'.exists
              ELSE /\ raised' = ""
                   /\ context_memory'.exists
                   /\ context_memory'.max_turns = max_turns
                   /\ context_memory'.turns = <<>>]_vars
    /\ [][~context_memory.exists => last_op' \notin {"add_turn", "get_context"}]_vars

\* C12 witness: a construction raised and no store exists.
C12_Witness ==
    /\ last_op = "ContextMemory"
    /\ raised = "ValueError"
    /\ ~context_memory.exists

\* How many line breaks a text holds.
LineBreaks(text) == Cardinality({i \in DOMAIN text : <<text[i]>> = NEWLINE})

\* C13: get_profile_prompt() returns "" when both fields are empty, else one
\* line per non-empty field, the preference line before the style line and
\* no line for an empty field; the call leaves the profile as it was.
C13_ProfilePrompt ==
    /\ [](last_op = "get_profile_prompt" =>
            /\ profile_out = ProfileLines
            /\ (profile_out = <<>>) <=> (Preference = <<>> /\ Style = <<>>)
            /\ (Preference # <<>> /\ Style # <<>>) =>
                 /\ LineBreaks(profile_out) = 1
                 /\ SubSeq(profile_out, 1, Len(PreferenceLine)) = PreferenceLine
            /\ (Preference = <<>> /\ Style # <<>>) =>
                 /\ LineBreaks(profile_out) = 0
                 /\ profile_out = STYLE_LABEL \o Style \o PERIOD)
    /\ [][last_op' = "get_profile_prompt" => UNCHANGED <<stores, history>>]_vars

\* C13 witness: the prompt read when both fields are set.
C13_Witness ==
    /\ last_op = "get_profile_prompt"
    /\ Preference # <<>>
    /\ Style # <<>>
    /\ profile_out = PreferenceLine \o NEWLINE \o StyleLine

\* The prompt read after style matches only: the style line alone.
C13_StyleOnly ==
    /\ last_op = "get_profile_prompt"
    /\ Preference = <<>>
    /\ Style # <<>>
    /\ profile_out = StyleLine

\* The run has ended: the call returned or raised.
RunEnded == run.pc \in {"returned", "raised"}

\* No store was written in the run.
NoWrites == added_turns = <<>> /\ memory_calls = <<>> /\ profile_calls = <<>>

\* C14: run_experiment with a mode outside {no_memory, context, retrieval,
\* hierarchical} ends, for every list of queries and the empty list too, by
\* raising the unsupported-mode error and never by returning a result, and it
\* raises before any model call and any memory write.  (The collaborators
\* are taken as constructed: a failing LLMClient() is another error.)
C14_UnsupportedMode ==
    (run.mode \notin Modes /\ RunEnded /\ last_op # "run_experiment") =>
       /\ run.pc = "raised"
       /\ raised = "ValueError: Unsupported mode"
       /\ run.generate_calls = 0
       /\ NoWrites

\* With at least one query the unsupported mode is refused at the first
\* query, before any model call and any memory write.
C14_RefusedAtFirstQuery ==
    (run.mode \notin Modes /\ last_op \notin {"start", "run_experiment", "return"}) =>
       /\ run.pc = "raised"
       /\ raised = "ValueError: Unsupported mode"
       /\ Len(run.user_queries) = 1
       /\ run.generate_calls = 0
       /\ NoWrites

\* The float 1.0
FloatOne == FloatOfInt(1)

\* Every component of the vector is 0.0 (the empty vector too).
ZeroVector(v) == \A i \in DOMAIN v : v[i] = 0

\* |x - 1.0| <= 2^-50, for a float x
NearOne(x) ==
    /\ x.sign = 1
    /\ \/ x.e = -52 /\ BigLess(BigSub(x.m, BigShl(Big(1), 52)), Big(5))
       \/ x.e = -53 /\ BigLess(BigSub(BigShl(Big(1), 53), x.m), Big(9))

IN_PREFIX == <<105, 110>>

\* The cue "formal" occurs in the text somewhere else than inside "informal".
FormalCue(lowered) ==
    \E i \in 0..(Len(lowered) - Len(FORMAL)) :
       /\ SubSeq(lowered, i + 1, i + Len(FORMAL)) = FORMAL
       /\ ~(i >= 2 /\ SubSeq(lowered, i - 1, i) = IN_PREFIX)

\* The only style cue words of the text are casual cues.
OnlyCasualCues(text) ==
    LET lowered == lower(text)
    IN /\ contains(CASUAL, lowered) \/ contains(INFORMAL, lowered)
       /\ ~FormalCue(lowered)
       /\ \A cue \in {CONCISE, BRIEF, DETAILED, THOROUGH} : ~contains(cue, lowered)

\* C16: update_from_text on a text whose only style cue word is "casual" or
\* "informal", in any letter case, leaves the profile with style "casual".
C16_CasualCues ==
    (last_op = "update_from_text" /\ OnlyCasualCues(LastText)) => Style = CASUAL

\* The cue "casual" alone does set the style to "casual".
C16_CasualWord ==
    (/\ last_op = "update_from_text"
     /\ OnlyCasualCues(LastText)
     /\ ~contains(INFORMAL, lower(LastText))) => Style = CASUAL

\* The queries of the run whose write-back has run to its end.
Completed ==
    IF run.pc \in {"loop", "returned"} THEN Len(run.user_queries)
    ELSE IF run.user_queries = <<>> THEN 0
    ELSE Len(run.user_queries) - 1

\* What the write-back of the j-th query hands to each store.
TurnOf(j) == [user |-> run.user_queries[j], assistant |-> run.assistant_responses[j]]

MemoryTextOf(j) ==
    USER_PREFIX \o run.user_queries[j] \o ASSISTANT_SEP \o run.assistant_responses[j]

C17_RetrievalOnly ==
    /\ run.pc = "returned"
    /\ run.mode = "retrieval"
    /\ Len(memory_calls) >= 3
    /\ added_turns = <<>>
    /\ profile_calls = <<>>

\* A hierarchical write-back cut short by the embedding model: the turn is
\* in the context store, the other two stores were not written.
C17_CutShort ==
    /\ run.pc = "raised"
    /\ last_op = "write"
    /\ Len(added_turns) = Len(memory_calls) + 1

\* The user and assistant messages of the turns j..last of the run, oldest
\* first (an empty text gives no message).
RECURSIVE EarlierMessages(_, _)
EarlierMessages(j, last) ==
    IF j > last THEN <<>>
    ELSE (IF run.user_queries[j] # <<>>
          THEN <<[role |-> "user", content |-> run.user_queries[j]]>> ELSE <<>>)
         \o (IF run.assistant_responses[j] # <<>>
             THEN <<[role |-> "assistant", content |-> run.assistant_responses[j]]>>
             ELSE <<>>)
         \o EarlierMessages(j + 1, last)

\* The system message listing the retrieved memories, when there are any.
RetrievedBlock ==
    IF run.retrieved = <<>> THEN <<>>
    ELSE <<[role |-> "system",
            content |-> MEMORIES_HEADER \o join(NEWLINE,
                          [n \in 1..Len(run.retrieved) |-> BULLET \o run.retrieved[n]])]>>

\* The system message of the profile, when the profile has a line.
ProfileBlock ==
    IF ProfileLines = <<>> THEN <<>>
    ELSE <<[role |-> "system", content |-> ProfileLines]>>

\* The messages of query i are built and sent; turn i is not written yet.
Sent == run.pc \in {"generate", "write"}

\* C18: for the i-th query of a run the messages sent to the model are
\* assembled from stores that hold only the queries 1..i-1 and their replies,
\* and turn i is written back only after the reply to query i is received.
\* In context mode the messages of query i are the last min(i-1, 4) earlier
\* turns, oldest first, followed by query i as the final user message; query
\* i is not in its own context or retrieved memories.
C18_ReadBeforeWrite ==
    /\ [](Sent =>
            LET i == Len(run.user_queries)
                window == Min(i - 1, RUN_MAX_TURNS)
                final == <<[role |-> "user", content |-> run.user_queries[i]]>>
            IN /\ run.mode \in {"context", "hierarchical"} =>
                    /\ Len(context_memory.turns) = window
                    /\ \A n \in 1..window : context_memory.turns[n] = TurnOf(i - 1 - window + n)
               /\ run.mode \in {"retrieval", "hierarchical"} =>
                    /\ retrieval_memory.texts = [j \in 1..(i - 1) |-> MemoryTextOf(j)]
                    /\ Len(run.retrieved) = Min(i - 1, RUN_RETRIEVAL_K)
                    /\ \A n \in 1..Len(run.retrieved) :
                          \E j \in 1..(i - 1) : run.retrieved[n] = MemoryTextOf(j)
               /\ run.mode = "hierarchical" =>
                    profile_calls = [j \in 1..(i - 1) |-> run.user_queries[j]]
               /\ run.mode = "no_memory" => messages = final
               /\ run.mode = "context" =>
                    messages = EarlierMessages(i - window, i - 1) \o final
               /\ run.mode = "retrieval" => messages = RetrievedBlock \o final
               /\ run.mode = "hierarchical" =>
                    messages = ProfileBlock \o RetrievedBlock
                               \o EarlierMessages(i - window, i - 1) \o final)
    /\ [][(\/ added_turns' # added_turns
           \/ memory_calls' # memory_calls
           \/ profile_calls' # profile_calls
           \/ retrieval_memory'.texts # retrieval_memory.texts)
          => /\ run.pc = "write"
             /\ Len(run.assistant_responses) = Len(run.user_queries)
             /\ run.generate_calls = Len(run.user_queries)
             /\ run.assistant_text = run.assistant_responses[Len(run.user_queries)]]_vars

\* C18 witness: the sixth query of a context run is sent with the turns 2..5
\* and without turn 1.
C18_Witness ==
    /\ run.pc = "generate"
    /\ run.mode = "context"
    /\ Len(run.user_queries) = 6
    /\ run.user_queries[1] = T_Hi
    /\ run.user_queries[2] = T_like_concise
    /\ Len(messages) = 9
    /\ messages[1] = [role |-> "user", content |-> T_like_concise]
    /\ messages[9] = [role |-> "user", content |-> run.user_queries[6]]

\* The fifth query of a hierarchical run is sent with three of the four
\* earlier memories and the profile of the earlier queries.
C18_Hierarchical ==
    /\ run.pc = "write"
    /\ run.mode = "hierarchical"
    /\ Len(run.user_queries) = 5
    /\ Len(run.retrieved) = 3
    /\ ProfileLines # <<>>
    /\ Len(context_memory.turns) = 4

\* Every component of the vector is 0.0.
AllZero(vector) == \A b \in 1..Len(vector.num) : vector.num[b] = 0

\* C19: with the fallback embedding an empty query text embeds to the
\* all-zero vector, its similarity to every stored record is 0.0, and
\* retrieve("", k) with k >= 1 on a non-empty store returns the first
\* min(k, store size) stored texts in insertion order; a stored empty text
\* has similarity 0.0 to every query.
C19_EmptyTextFallback ==
    (/\ retrieval_memory.model = "None"
     /\ last_op = "retrieve" /\ raised = ""
     /\ retrieve_call.k >= 1 /\ retrieval_memory.texts # <<>>) =>
       LET q == retrieve_call.query_embedding
           n == Len(retrieval_memory.texts)
       IN /\ retrieve_call.query = <<>> =>
               /\ Len(q.num) = Dim
               /\ AllZero(q)
               /\ \A i \in 1..n : SimTo(q, i) = ZeroSim
               /\ Deref(retrieved_out)
                    = SubSeq(retrieval_memory.texts, 1, Min(retrieve_call.k, n))
          /\ \A i \in 1..n :
                retrieval_memory.texts[i] = <<>> =>
                  /\ Len(retrieval_memory.embeddings[i].num) = Dim
                  /\ AllZero(retrieval_memory.embeddings[i])
                  /\ SimTo(q, i) = ZeroSim

\* C19 witness: retrieve("", 2) on three records, the second of them the
\* empty text, returned the first two.
C19_Witness ==
    /\ retrieval_memory.model = "None"
    /\ last_op = "retrieve" /\ raised = ""
    /\ retrieve_call.query = <<>>
    /\ retrieve_call.k = 2
    /\ Len(retrieval_memory.texts) = 3
    /\ retrieval_memory.texts[1] # <<>>
    /\ retrieval_memory.texts[2] = <<>>
    /\ retrieval_memory.texts[3] # <<>>
    /\ Deref(retrieved_out) = <<retrieval_memory.texts[1], <<>>>>

\* A stored empty text ranks behind a later record that is similar to a
\* non-empty query.
C19_StoredEmpty ==
    /\ retrieval_memory.model = "None"
    /\ last_op = "retrieve" /\ raised = ""
    /\ retrieve_call.query # <<>>
    /\ retrieve_call.k = 2
    /\ Len(retrieval_memory.texts) = 2
    /\ retrieval_memory.texts[1] = <<>>
    /\ retrieval_memory.texts[2] # <<>>
    /\ Deref(retrieved_out) = <<retrieval_memory.texts[2], <<>>>>

====
